---- MODULE Spec2Model ----
(***************************************************************************)
(* A model of the REST handlers of routes/api/{users,auth,profile,posts}.js *)
(* over the three Mongoose collections they read and write.                *)
(*                                                                         *)
(* Every handler is an async function: it runs atomically up to each       *)
(* `await` of a database call and may interleave with other requests       *)
(* there.  One action of the model is one such segment: the database call  *)
(* that ends the previous segment together with the synchronous code that  *)
(* follows it.  A request's arrival is merged with its first segment.      *)
(*                                                                         *)
(* Documents are identified by their position in the collection's          *)
(* sequence (an ObjectId is never reused); a removed document leaves the   *)
(* marker Removed behind.  `document.save()` of a loaded document writes   *)
(* the paths the handler modified (Mongoose sends unshift/splice on an     *)
(* array as a $set of the whole array).  Database calls succeed; the       *)
(* routes that only read (GET) and the removal of an account are left out. *)
(*                                                                         *)
(* The specifications differ in the routes they run and in whether         *)
(* requests overlap: SpecLikes and SpecProfile interleave the segments of  *)
(* two handlers, the ...Seq specifications handle one request at a time.   *)
(***************************************************************************)
EXTENDS Integers, Sequences, FiniteSets, TLC

VARIABLES
    users,      \* the User collection: sequence of user documents
    profiles,   \* the Profile collection: sequence of profile documents
    posts,      \* the Post collection: sequence of post documents
    nextOid,    \* number of sub-document ObjectIds generated so far
    req,        \* per handler instance: the request in flight and its locals
    out,        \* the response sent last
    prev        \* history (sequential specifications): the list write that
                \* completed last and the list it replaced

vars == <<users, profiles, posts, nextOid, req, out, prev>>

----
\* Bounds of the model.

\* Posts ever created.
MaxPosts == 1

\* Users registered (when the requests of the sequential post and profile
\* specifications start; at most, in the registration specification).
MaxUsers == 2

\* Profiles ever created.
MaxProfiles == 2

\* ObjectIds generated for sub-documents (comments, experience and education entries).
MaxOids == 3

\* The handler instances that can be running at once.  They are
\* interchangeable: a request that arrives runs in the first idle one.
Procs == {1, 2}

\* req.user.id, set by the auth middleware from a verified token: a registered user.
UserIds == DOMAIN users

----
\* JavaScript values and array methods used by the handlers.

Null == [null |-> TRUE]
Removed == [removed |-> TRUE]
NoRequest == [op |-> "none", pc |-> "idle"]
NoPrev == [op |-> "none"]

\* Array.prototype.indexOf: 0-based index of the first match, -1 when absent.
RECURSIVE IndexFrom(_, _, _)
IndexFrom(s, x, i) ==
    IF i > Len(s) THEN -1
    ELSE IF s[i] = x THEN i - 1
    ELSE IndexFrom(s, x, i + 1)

IndexOf(s, x) == IndexFrom(s, x, 1)

\* Array.prototype.splice(start, 1): a negative start counts from the end.
Splice1(s, start) ==
    LET from == IF start < 0
                THEN (IF Len(s) + start < 0 THEN 0 ELSE Len(s) + start)
                ELSE start
    IN  IF from >= Len(s) THEN s
        ELSE [i \in 1..(Len(s) - 1) |-> IF i <= from THEN s[i] ELSE s[i + 1]]

\* Array.prototype.unshift
Unshift(s, x) == <<x>> \o s

Response(status, msg) == [status |-> status, msg |-> msg]

Free(p) == req[p].pc = "idle" /\ \A q \in Procs : q < p => req[q].pc # "idle"

\* res.status(...).json(...) / res.send(...) ending the handler
Finish(p, res) == req' = [req EXCEPT ![p] = NoRequest] /\ out' = res

\* the handler goes on to its next await
Await(p, r) == req' = [req EXCEPT ![p] = r] /\ out' = out

----
\* Collections (Mongoose models) and their queries.

\* Model.findById / findOne by _id: the stored document or null.
FindById(coll, id) ==
    IF id \in DOMAIN coll /\ coll[id] # Removed THEN coll[id] ELSE Null

\* A route parameter that is no ObjectId: the query throws a CastError
\* (err.kind === 'ObjectId').
MalformedId == 0

PostIdParams == {MalformedId} \cup (1..MaxPosts)

\* document.save() after a change of one array path of a loaded document:
\* an update of that path of the stored document; it matches nothing once
\* the document was removed.
SaveLikesPush(coll, id, likes) ==
    IF FindById(coll, id) = Null \/ likes = <<>> THEN coll
    ELSE [coll EXCEPT ![id].likes = Unshift(@, likes[1])]

SaveLikes(coll, id, likes) ==
    IF FindById(coll, id) = Null THEN coll
    ELSE [coll EXCEPT ![id].likes = likes]

SaveComments(coll, id, comments) ==
    IF FindById(coll, id) = Null THEN coll
    ELSE [coll EXCEPT ![id].comments = comments]

\* document.remove()
RemoveDoc(coll, id) ==
    IF id \in DOMAIN coll THEN [coll EXCEPT ![id] = Removed] ELSE coll

----
\* routes/api/posts.js

Texts == {"", "hello"}

\* check('text').not().isEmpty()
TextValid(text) == text # ""

\* POST api/posts, up to `await User.findById`, then up to `await newPost.save()`
CreatePostFindUser(p, u, text) ==
    /\ Free(p)
    /\ LET r == [op |-> "createPost", pc |-> "save", user |-> u, text |-> text]
           user == FindById(users, u)
       IN  IF ~TextValid(text)
           THEN Finish(p, Response(400, "Text is required"))
           ELSE IF user = Null
           THEN Finish(p, Response(500, "Server error."))
           ELSE Await(p, r @@ [doc |->
                    [user |-> u, name |-> user.name, avatar |-> user.avatar,
                     text |-> text, likes |-> <<>>, comments |-> <<>>]])
    /\ UNCHANGED <<users, profiles, posts, nextOid>>

CreatePostSave(p) ==
    /\ req[p].op = "createPost" /\ req[p].pc = "save"
    /\ Len(posts) < MaxPosts
    /\ posts' = Append(posts, req[p].doc)
    /\ Finish(p, Response(200, "post"))
    /\ UNCHANGED <<users, profiles, nextOid>>

OwnsPostAny(post, u) == post.user \in UserIds

\* post.user.toString() !== req.user.id
OwnsPost(post, u) == post.user = u

\* DELETE api/posts/:post_id, up to `await Post.findById` and the ownership check
DeletePostFind(p, u, k) ==
    /\ Free(p)
    /\ LET r == [op |-> "deletePost", pc |-> "remove", user |-> u, post |-> k]
           post == FindById(posts, k)
       IN  IF k = MalformedId
           THEN Finish(p, Response(404, "Post not found."))
           ELSE IF post = Null
           THEN Finish(p, Response(500, "Server error."))
           ELSE IF ~OwnsPost(post, u)
           THEN Finish(p, Response(401, "Not authorized"))
           ELSE Await(p, r)
    /\ UNCHANGED <<users, profiles, posts, nextOid>>

\* ... then `await post.remove()` and the rest of the handler
DeletePostRemove(p) ==
    /\ req[p].op = "deletePost" /\ req[p].pc = "remove"
    /\ posts' = RemoveDoc(posts, req[p].post)
    /\ Finish(p, Response(200, "Post removed"))
    /\ UNCHANGED <<users, profiles, nextOid>>

LikedByAuthor(post, u) ==
    Cardinality({i \in 1..Len(post.likes) : post.likes[i].user = post.user}) > 0

\* post.likes.filter((like) => like.user.toString() === req.user.id).length > 0
LikedBy(post, u) ==
    Cardinality({i \in 1..Len(post.likes) : post.likes[i].user = u}) > 0

\* PUT api/posts/like/:post_id, up to `await Post.findById`, the check and the unshift
LikeFind(p, u, k) ==
    /\ Free(p)
    /\ LET r == [op |-> "like", pc |-> "save", user |-> u, post |-> k]
           post == FindById(posts, k)
       IN  IF k = MalformedId \/ post = Null
           THEN Finish(p, Response(500, "Server error"))
           ELSE IF LikedBy(post, u)
           THEN Finish(p, Response(400, "Can't like a post more than once"))
           ELSE Await(p, r @@
                    [likes |-> Unshift(post.likes, [user |-> u])])
    /\ UNCHANGED <<users, profiles, posts, nextOid>>

\* ... then `await post.save()` and res.json(post.likes)
LikeSave(p) ==
    /\ req[p].op = "like" /\ req[p].pc = "save"
    /\ posts' = SaveLikes(posts, req[p].post, req[p].likes)
    /\ Finish(p, Response(200, "likes"))
    /\ UNCHANGED <<users, profiles, nextOid>>

LikeRemoveIndexLast(post, u) == Len(post.likes) - 1

\* post.likes.map((like) => like.user.toString()).indexOf(req.user.id)
LikeRemoveIndex(post, u) ==
    IndexOf([i \in 1..Len(post.likes) |-> post.likes[i].user], u)

\* PUT api/posts/unlike/:post_id, up to `await Post.findById`, the check and the splice
UnlikeFind(p, u, k) ==
    /\ Free(p)
    /\ LET r == [op |-> "unlike", pc |-> "save", user |-> u, post |-> k]
           post == FindById(posts, k)
       IN  IF k = MalformedId \/ post = Null
           THEN Finish(p, Response(500, "Server error"))
           ELSE IF ~LikedBy(post, u)
           THEN Finish(p, Response(400, "Post has not been liked."))
           ELSE Await(p, r @@
                    [likes |-> Splice1(post.likes, LikeRemoveIndex(post, u))])
    /\ UNCHANGED <<users, profiles, posts, nextOid>>

\* ... then `await post.save()` and res.json(post.likes)
UnlikeSave(p) ==
    /\ req[p].op = "unlike" /\ req[p].pc = "save"
    /\ posts' = SaveLikes(posts, req[p].post, req[p].likes)
    /\ Finish(p, Response(200, "likes"))
    /\ UNCHANGED <<users, profiles, nextOid>>

\* req.params.comment_id: compared as a string with each comment's id
CommentIdParams == 0..MaxOids

\* POST api/posts/comment/:post_id, up to `await User.findById`
AddCommentFindUser(p, u, k, text) ==
    /\ Free(p)
    /\ LET r == [op |-> "addComment", pc |-> "findPost", user |-> u, post |-> k,
                 text |-> text]
       IN  IF ~TextValid(text)
           THEN Finish(p, Response(400, "Text is required"))
           ELSE Await(p, r @@ [doc |-> FindById(users, u)])
    /\ UNCHANGED <<users, profiles, posts, nextOid>>

\* ... up to `await Post.findById`, the new comment and the unshift, which
\* gives the comment its _id
AddCommentFindPost(p) ==
    /\ req[p].op = "addComment" /\ req[p].pc = "findPost"
    /\ LET r == req[p]
           user == r.doc
           post == FindById(posts, r.post)
       IN  IF r.post = MalformedId \/ user = Null \/ post = Null
           THEN Finish(p, Response(500, "Server error.")) /\ nextOid' = nextOid
           ELSE /\ nextOid < MaxOids
                /\ nextOid' = nextOid + 1
                /\ Await(p, [op |-> "addComment", pc |-> "save", user |-> r.user,
                             post |-> r.post,
                             comments |-> Unshift(post.comments,
                                [id |-> nextOid + 1, text |-> r.text,
                                 name |-> user.name, avatar |-> user.avatar,
                                 user |-> r.user])])
    /\ UNCHANGED <<users, profiles, posts>>

\* ... then `await post.save()` and res.json(post.comments)
AddCommentSave(p) ==
    /\ req[p].op = "addComment" /\ req[p].pc = "save"
    /\ posts' = SaveComments(posts, req[p].post, req[p].comments)
    /\ Finish(p, Response(200, "comments"))
    /\ UNCHANGED <<users, profiles, nextOid>>

\* post.comments.find((comment) => comment.id === req.params.comment_id)
FindComment(post, c) ==
    IF \E i \in 1..Len(post.comments) : post.comments[i].id = c
    THEN post.comments[CHOOSE i \in 1..Len(post.comments) :
            /\ post.comments[i].id = c
            /\ \A j \in 1..(i - 1) : post.comments[j].id # c]
    ELSE Null

\* post.comments.map((comment) => comment.user.toString()).indexOf(req.user.id)
CommentRemoveIndex(post, u) ==
    IndexOf([i \in 1..Len(post.comments) |-> post.comments[i].user], u)

\* DELETE api/posts/comment/:post_id/:comment_id, up to `await Post.findById`,
\* the lookup of the comment, the checks and the splice
RemoveCommentFind(p, u, k, c) ==
    /\ Free(p)
    /\ LET r == [op |-> "removeComment", pc |-> "save", user |-> u, post |-> k,
                 comment |-> c]
           post == FindById(posts, k)
       IN  IF k = MalformedId \/ post = Null
           THEN Finish(p, Response(500, "Server error"))
           ELSE IF FindComment(post, c) = Null
           THEN Finish(p, Response(404, "Comment does not exist."))
           ELSE IF FindComment(post, c).user # u
           THEN Finish(p, Response(401, "Not authorized."))
           ELSE Await(p, r @@
                    [comments |-> Splice1(post.comments, CommentRemoveIndex(post, u))])
    /\ UNCHANGED <<users, profiles, posts, nextOid>>

\* ... then `await post.save()` and res.json(post.comments)
RemoveCommentSave(p) ==
    /\ req[p].op = "removeComment" /\ req[p].pc = "save"
    /\ posts' = SaveComments(posts, req[p].post, req[p].comments)
    /\ Finish(p, Response(200, "comments"))
    /\ UNCHANGED <<users, profiles, nextOid>>

----
\* routes/api/profile.js

\* A field the request body does not carry (undefined).
Absent == "(absent)"

\* `if (field)`: neither undefined nor the empty string
Truthy(x) == x # Absent /\ x # ""

\* String.prototype.trim on a string given as its characters
RECURSIVE TrimLeft(_)
TrimLeft(s) == IF s # <<>> /\ Head(s) = " " THEN TrimLeft(Tail(s)) ELSE s

RECURSIVE TrimRight(_)
TrimRight(s) ==
    IF s # <<>> /\ s[Len(s)] = " " THEN TrimRight(SubSeq(s, 1, Len(s) - 1)) ELSE s

Trim(s) == TrimRight(TrimLeft(s))

\* String.prototype.split(','): the pieces between the commas, empty ones included
RECURSIVE SplitFrom(_, _)
SplitFrom(s, piece) ==
    IF s = <<>> THEN <<piece>>
    ELSE IF Head(s) = "," THEN <<piece>> \o SplitFrom(Tail(s), <<>>)
    ELSE SplitFrom(Tail(s), Append(piece, Head(s)))

Split(s) == SplitFrom(s, <<>>)

\* skills.split(',').map((skill) => skill.trim())
ParseSkills(skills) == [i \in 1..Len(Split(skills)) |-> Trim(Split(skills)[i])]

\* Request bodies of POST api/profile.  skills is given as its characters,
\* <<>> when missing or empty.
ProfileBody(status, skills, company, youtube, twitter) ==
    [company |-> company, website |-> Absent, location |-> Absent, bio |-> Absent,
     status |-> status, githubUsername |-> Absent, skills |-> skills,
     youtube |-> youtube, facebook |-> Absent, twitter |-> twitter,
     instagram |-> Absent, linkedin |-> Absent]

ProfileBodies ==
    {ProfileBody("dev", <<"a", ",", " ", "b">>, "acme", "yt", Absent),
     ProfileBody("lead", <<"c">>, Absent, Absent, "tw"),
     ProfileBody("", <<"c">>, Absent, Absent, Absent),
     ProfileBody("dev", <<>>, Absent, Absent, Absent)}

\* check('status').not().isEmpty(), check('skills').not().isEmpty()
ProfileBodyValid(body) == Truthy(body.status) /\ body.skills # <<>>

\* one key of the object under construction, set only when the value is truthy
Field(key, value) == IF Truthy(value) THEN [k \in {key} |-> value] ELSE <<>>

\* profileFields.social
SocialFields(body) ==
    Field("youtube", body.youtube) @@ Field("twitter", body.twitter)
        @@ Field("facebook", body.facebook) @@ Field("linkedin", body.linkedin)
        @@ Field("instagram", body.instagram)

\* profileFields
ProfileFields(u, body) ==
    [user |-> u] @@ Field("company", body.company) @@ Field("website", body.website)
        @@ Field("location", body.location) @@ Field("status", body.status)
        @@ (IF body.skills # <<>> THEN [skills |-> ParseSkills(body.skills)] ELSE <<>>)
        @@ Field("bio", body.bio) @@ Field("githubUsername", body.githubUsername)
        @@ [social |-> SocialFields(body)]

\* the identifier of the document Profile.findOne({ user }) returns: the
\* first stored profile of the user, 0 when there is none
FindProfileId(u) ==
    IF \E i \in DOMAIN profiles : profiles[i] # Removed /\ profiles[i].user = u
    THEN CHOOSE i \in DOMAIN profiles :
            /\ profiles[i] # Removed /\ profiles[i].user = u
            /\ \A j \in 1..(i - 1) : profiles[j] = Removed \/ profiles[j].user # u
    ELSE 0

\* POST api/profile, up to `await Profile.findOne`
UpsertFind(p, u, body) ==
    /\ Free(p)
    /\ IF ~ProfileBodyValid(body)
       THEN Finish(p, Response(400, "errors"))
       ELSE Await(p, [op |-> "upsertProfile",
                      pc |-> IF FindProfileId(u) # 0 THEN "update" ELSE "create",
                      user |-> u, fields |-> ProfileFields(u, body)])
    /\ UNCHANGED <<users, profiles, posts, nextOid>>

\* { $set: profileFields }: every key of profileFields replaces the stored
\* value of that key
SetFields(doc, fields) == fields @@ doc

\* ... then `await Profile.findOneAndUpdate({ user }, { $set: profileFields })`
UpsertUpdate(p) ==
    /\ req[p].op = "upsertProfile" /\ req[p].pc = "update"
    /\ LET id == FindProfileId(req[p].user)
       IN  profiles' = IF id = 0 THEN profiles
                       ELSE [profiles EXCEPT ![id] = SetFields(@, req[p].fields)]
    /\ Finish(p, Response(200, "profile"))
    /\ UNCHANGED <<users, posts, nextOid>>

\* ... or `profile = new Profile(profileFields); await profile.save()`
UpsertCreate(p) ==
    /\ req[p].op = "upsertProfile" /\ req[p].pc = "create"
    /\ Len(profiles) < MaxProfiles
    /\ profiles' = Append(profiles,
            req[p].fields @@ [experience |-> <<>>, education |-> <<>>])
    /\ Finish(p, Response(200, "profile"))
    /\ UNCHANGED <<users, posts, nextOid>>

\* Request bodies of PUT api/profile/experience
ExperienceBodies ==
    {[title |-> "dev", company |-> "acme", location |-> Absent, from |-> "2020",
      to |-> Absent, current |-> Absent, description |-> Absent],
     [title |-> "", company |-> "acme", location |-> Absent, from |-> "2020",
      to |-> Absent, current |-> Absent, description |-> Absent]}

\* check('title'), check('company'), check('from'): .not().isEmpty()
ExperienceBodyValid(body) ==
    Truthy(body.title) /\ Truthy(body.company) /\ Truthy(body.from)

\* req.params.exp_id
EntryIdParams == 0..MaxOids

SaveExperience(coll, id, list) ==
    IF FindById(coll, id) = Null THEN coll
    ELSE [coll EXCEPT ![id].experience = list]

SaveEducation(coll, id, list) ==
    IF FindById(coll, id) = Null THEN coll
    ELSE [coll EXCEPT ![id].education = list]

\* PUT api/profile/experience, up to `await Profile.findOne` and the unshift,
\* which gives the entry its _id
AddExperienceFind(p, u, body) ==
    /\ Free(p)
    /\ LET id == FindProfileId(u)
       IN  IF ~ExperienceBodyValid(body)
           THEN Finish(p, Response(400, "errors")) /\ nextOid' = nextOid
           ELSE IF id = 0
           THEN Finish(p, Response(500, "Server error.")) /\ nextOid' = nextOid
           ELSE /\ nextOid < MaxOids
                /\ nextOid' = nextOid + 1
                /\ Await(p, [op |-> "addExperience", pc |-> "save", user |-> u,
                             profile |-> id, entry |-> nextOid + 1,
                             list |-> Unshift(profiles[id].experience,
                                              [id |-> nextOid + 1] @@ body)])
    /\ UNCHANGED <<users, profiles, posts>>

\* ... then `await profile.save()` and res.json(profile)
AddExperienceSave(p) ==
    /\ req[p].op = "addExperience" /\ req[p].pc = "save"
    /\ profiles' = SaveExperience(profiles, req[p].profile, req[p].list)
    /\ Finish(p, Response(200, "profile"))
    /\ UNCHANGED <<users, posts, nextOid>>

ExperienceRemoveIndexNoMatch(profile, e) == -1

\* profile.experience.map((item) => item.id).indexOf(req.params.exp_id)
ExperienceRemoveIndex(profile, e) ==
    IndexOf([i \in 1..Len(profile.experience) |-> profile.experience[i].id], e)

\* DELETE api/profile/experience/:exp_id, up to `await Profile.findOne` and the splice
RemoveExperienceFind(p, u, e) ==
    /\ Free(p)
    /\ LET id == FindProfileId(u)
       IN  IF id = 0
           THEN Finish(p, Response(500, "Server error."))
           ELSE Await(p, [op |-> "removeExperience", pc |-> "save", user |-> u,
                          profile |-> id, entry |-> e,
                          list |-> Splice1(profiles[id].experience,
                                           ExperienceRemoveIndex(profiles[id], e))])
    /\ UNCHANGED <<users, profiles, posts, nextOid>>

\* ... then `await profile.save()` and res.json(profile)
RemoveExperienceSave(p) ==
    /\ req[p].op = "removeExperience" /\ req[p].pc = "save"
    /\ profiles' = SaveExperience(profiles, req[p].profile, req[p].list)
    /\ Finish(p, Response(200, "profile"))
    /\ UNCHANGED <<users, posts, nextOid>>

\* Request bodies of PUT api/profile/education
EducationBodies ==
    {[school |-> "mit", degree |-> "bsc", fieldOfStudy |-> "cs", from |-> "2010",
      to |-> Absent, current |-> Absent, description |-> Absent],
     [school |-> "mit", degree |-> "bsc", fieldOfStudy |-> "", from |-> "2010",
      to |-> Absent, current |-> Absent, description |-> Absent]}

\* check('school'), check('degree'), check('fieldOfStudy'), check('from'): .not().isEmpty()
EducationBodyValid(body) ==
    /\ Truthy(body.school) /\ Truthy(body.degree)
    /\ Truthy(body.fieldOfStudy) /\ Truthy(body.from)

\* PUT api/profile/education, up to `await Profile.findOne` and the unshift
AddEducationFind(p, u, body) ==
    /\ Free(p)
    /\ LET id == FindProfileId(u)
       IN  IF ~EducationBodyValid(body)
           THEN Finish(p, Response(400, "errors")) /\ nextOid' = nextOid
           ELSE IF id = 0
           THEN Finish(p, Response(500, "Server error.")) /\ nextOid' = nextOid
           ELSE /\ nextOid < MaxOids
                /\ nextOid' = nextOid + 1
                /\ Await(p, [op |-> "addEducation", pc |-> "save", user |-> u,
                             profile |-> id, entry |-> nextOid + 1,
                             list |-> Unshift(profiles[id].education,
                                              [id |-> nextOid + 1] @@ body)])
    /\ UNCHANGED <<users, profiles, posts>>

\* ... then `await profile.save()` and res.json(profile)
AddEducationSave(p) ==
    /\ req[p].op = "addEducation" /\ req[p].pc = "save"
    /\ profiles' = SaveEducation(profiles, req[p].profile, req[p].list)
    /\ Finish(p, Response(200, "profile"))
    /\ UNCHANGED <<users, posts, nextOid>>

EducationRemoveIndexNoMatch(profile, e) == -1

\* profile.education.map((item) => item.id).indexOf(req.params.exp_id)
EducationRemoveIndex(profile, e) ==
    IndexOf([i \in 1..Len(profile.education) |-> profile.education[i].id], e)

\* DELETE api/profile/education/:exp_id, up to `await Profile.findOne` and the splice
RemoveEducationFind(p, u, e) ==
    /\ Free(p)
    /\ LET id == FindProfileId(u)
       IN  IF id = 0
           THEN Finish(p, Response(500, "Server error."))
           ELSE Await(p, [op |-> "removeEducation", pc |-> "save", user |-> u,
                          profile |-> id, entry |-> e,
                          list |-> Splice1(profiles[id].education,
                                           EducationRemoveIndex(profiles[id], e))])
    /\ UNCHANGED <<users, profiles, posts, nextOid>>

\* ... then `await profile.save()` and res.json(profile)
RemoveEducationSave(p) ==
    /\ req[p].op = "removeEducation" /\ req[p].pc = "save"
    /\ profiles' = SaveEducation(profiles, req[p].profile, req[p].list)
    /\ Finish(p, Response(200, "profile"))
    /\ UNCHANGED <<users, posts, nextOid>>

----
\* routes/api/users.js and routes/api/auth.js

\* isLength({ min: 6, max: 30 })
MinPasswordLen == 6
MaxPasswordLen == 30

\* expiresIn of the token issued by registration and by login
RegisterExpiresIn == 3600
LoginExpiresIn == 360000

\* Strings the validators measure are given as their characters.
Names == {"", "Ann", "Bob"}

Emails == {<<"a", "@", "x", ".", "c">>, <<"b", "@", "x", ".", "c">>, <<"a", "x">>}

Passwords ==
    {<<"s", "e", "c", "r", "e">>, <<"s", "e", "c", "r", "e", "t">>,
     <<"h", "u", "n", "t", "e", "r", "2">>, [i \in 1..(MaxPasswordLen + 1) |-> "x"]}

Salts == {"s1", "s2"}

\* check('email').isEmail(): one @ after a local part, a dot inside the domain
IsEmail(email) ==
    /\ Cardinality({i \in 1..Len(email) : email[i] = "@"}) = 1
    /\ \E i \in 2..Len(email) :
        /\ email[i] = "@"
        /\ \E j \in (i + 2)..(Len(email) - 1) : email[j] = "."

\* check('name').not().isEmpty(), check('email').isEmail(),
\* check('password').isLength({ min: 6, max: 30 })
RegisterValid(name, email, password) ==
    /\ name # ""
    /\ IsEmail(email)
    /\ Len(password) >= MinPasswordLen /\ Len(password) <= MaxPasswordLen

\* gravatar.url(email, {s: '200', r: 'pg', d: 'mm'})
Gravatar(email) == <<"gravatar", email, "200", "pg", "mm">>

\* bcrypt.hash(password, salt): a digest that carries its salt
Hash(password, salt) == [salt |-> salt, digest |-> <<"bcrypt", salt, password>>]

\* bcrypt.compare(password, hash)
Compare(password, hash) == Hash(password, hash.salt) = hash

\* the identifier of the document User.findOne({ email }) returns, 0 when there is none
FindUserId(email) ==
    IF \E i \in DOMAIN users : users[i] # Removed /\ users[i].email = email
    THEN CHOOSE i \in DOMAIN users :
            /\ users[i] # Removed /\ users[i].email = email
            /\ \A j \in 1..(i - 1) : users[j] = Removed \/ users[j].email # email
    ELSE 0

\* jwt.sign(payload, secret, { expiresIn }) and res.json({ token })
TokenResponse(id, expiresIn) ==
    [status |-> 200, msg |-> "token",
     token |-> [user |-> [id |-> id], expiresIn |-> expiresIn]]

EmailTakenNever(email) == FALSE

\* let user = await User.findOne({ email }); if (user) ...
EmailTaken(email) == FindUserId(email) # 0

\* POST api/users, up to `await User.findOne({ email })` and the check of its result
RegisterFind(p, name, email, password) ==
    /\ Free(p)
    /\ IF ~RegisterValid(name, email, password)
       THEN Finish(p, Response(400, "errors"))
       ELSE IF EmailTaken(email)
       THEN Finish(p, Response(500, "User already exists."))
       ELSE Await(p, [op |-> "register", pc |-> "save", name |-> name,
                      email |-> email, password |-> password])
    /\ UNCHANGED <<users, profiles, posts, nextOid>>

\* ... then the salt, the hash, `await user.save()` and the token
RegisterSave(p) ==
    /\ req[p].op = "register" /\ req[p].pc = "save"
    /\ Len(users) < MaxUsers
    /\ \E salt \in Salts :
        users' = Append(users,
            [name |-> req[p].name, email |-> req[p].email,
             avatar |-> Gravatar(req[p].email),
             password |-> Hash(req[p].password, salt)])
    /\ Finish(p, TokenResponse(Len(users) + 1, RegisterExpiresIn))
    /\ UNCHANGED <<profiles, posts, nextOid>>

\* check('email').isEmail(), check('password').exists()
LoginValid(email, password) == IsEmail(email)

\* POST api/auth, up to `await User.findOne({ email })` and the check of its result
LoginFind(p, email, password) ==
    /\ Free(p)
    /\ IF ~LoginValid(email, password)
       THEN Finish(p, Response(400, "errors"))
       ELSE IF FindUserId(email) = 0
       THEN Finish(p, Response(500, "Invalid credentials."))
       ELSE Await(p, [op |-> "login", pc |-> "compare", password |-> password,
                      id |-> FindUserId(email),
                      doc |-> users[FindUserId(email)]])
    /\ UNCHANGED <<users, profiles, posts, nextOid>>

PasswordMatchesAlways(password, user) == TRUE

\* const isMatch = await bcrypt.compare(password, user.password)
PasswordMatches(password, user) == Compare(password, user.password)

\* ... then `await bcrypt.compare(password, user.password)` and the token
LoginCompare(p) ==
    /\ req[p].op = "login" /\ req[p].pc = "compare"
    /\ IF ~PasswordMatches(req[p].password, req[p].doc)
       THEN Finish(p, Response(500, "Invalid credentials."))
       ELSE Finish(p, TokenResponse(req[p].id, LoginExpiresIn))
    /\ UNCHANGED <<users, profiles, posts, nextOid>>

----
\* Specifications.

\* The users of the post and profile specifications: already registered.
SomeEmail(i) == <<<<"a", "b", "c", "d", "e", "f">>[i], "@", "x", ".", "c">>

SomeUser(i) ==
    [name |-> "Ann", email |-> SomeEmail(i), avatar |-> Gravatar(SomeEmail(i)),
     password |-> Hash(<<"s", "e", "c", "r", "e", "t">>, "s1")]

Registered(n) ==
    /\ users = [i \in 1..n |-> SomeUser(i)]
    /\ profiles = <<>>
    /\ posts = <<>>
    /\ nextOid = 0
    /\ req = [p \in Procs |-> NoRequest]
    /\ out = Response(0, "")
    /\ prev = NoPrev

LikesNext ==
    \E p \in Procs :
        \/ \E u \in UserIds, text \in Texts :
                CreatePostFindUser(p, u, text) /\ UNCHANGED prev
        \/ CreatePostSave(p) /\ UNCHANGED prev
        \/ \E u \in UserIds, k \in PostIdParams :
                DeletePostFind(p, u, k) /\ UNCHANGED prev
        \/ DeletePostRemove(p) /\ UNCHANGED prev
        \/ \E u \in UserIds, k \in PostIdParams :
                LikeFind(p, u, k) /\ UNCHANGED prev
        \/ LikeSave(p) /\ UNCHANGED prev
        \/ \E u \in UserIds, k \in PostIdParams :
                UnlikeFind(p, u, k) /\ UNCHANGED prev
        \/ UnlikeSave(p) /\ UNCHANGED prev

InitTwoUsers == Registered(2)

InitUsers == Registered(MaxUsers)

SpecLikes == InitTwoUsers /\ [][LikesNext]_vars

\* Requests are handled one after the other: a handler runs to its response
\* before the next request arrives.  prev records the like-list write that
\* completed last together with the list it replaced.
Alone(p) == \A q \in Procs \ {p} : req[q].pc = "idle"

LikesRecord(p) ==
    IF req'[p] # NoRequest THEN prev
    ELSE IF req[p].op \in {"like", "unlike"} /\ FindById(posts, req[p].post) # Null
    THEN [op |-> req[p].op, user |-> req[p].user, post |-> req[p].post,
          before |-> posts[req[p].post].likes]
    ELSE NoPrev

LikesSeqNext ==
    \E p \in Procs :
        \/ \E u \in UserIds, text \in Texts :
                Alone(p) /\ CreatePostFindUser(p, u, text) /\ prev' = LikesRecord(p)
        \/ Alone(p) /\ CreatePostSave(p) /\ prev' = LikesRecord(p)
        \/ \E u \in UserIds, k \in PostIdParams :
                Alone(p) /\ DeletePostFind(p, u, k) /\ prev' = LikesRecord(p)
        \/ Alone(p) /\ DeletePostRemove(p) /\ prev' = LikesRecord(p)
        \/ \E u \in UserIds, k \in PostIdParams :
                Alone(p) /\ LikeFind(p, u, k) /\ prev' = LikesRecord(p)
        \/ Alone(p) /\ LikeSave(p) /\ prev' = LikesRecord(p)
        \/ \E u \in UserIds, k \in PostIdParams :
                Alone(p) /\ UnlikeFind(p, u, k) /\ prev' = LikesRecord(p)
        \/ Alone(p) /\ UnlikeSave(p) /\ prev' = LikesRecord(p)

SpecLikesSeq == InitUsers /\ [][LikesSeqNext]_vars

\* The post and comment routes, requests handled one after the other.
CommentsSeqNext ==
    \E p \in Procs :
        \/ \E u \in UserIds, text \in Texts :
                Alone(p) /\ CreatePostFindUser(p, u, text) /\ UNCHANGED prev
        \/ Alone(p) /\ CreatePostSave(p) /\ UNCHANGED prev
        \/ \E u \in UserIds, k \in PostIdParams, text \in Texts :
                Alone(p) /\ AddCommentFindUser(p, u, k, text) /\ UNCHANGED prev
        \/ Alone(p) /\ AddCommentFindPost(p) /\ UNCHANGED prev
        \/ Alone(p) /\ AddCommentSave(p) /\ UNCHANGED prev
        \/ \E u \in UserIds, k \in PostIdParams, c \in CommentIdParams :
                Alone(p) /\ RemoveCommentFind(p, u, k, c) /\ UNCHANGED prev
        \/ Alone(p) /\ RemoveCommentSave(p) /\ UNCHANGED prev

SpecCommentsSeq == InitUsers /\ [][CommentsSeqNext]_vars

\* The profile route with requests that overlap.
ProfileNext ==
    \E p \in Procs :
        \/ \E u \in UserIds, body \in ProfileBodies :
                UpsertFind(p, u, body) /\ UNCHANGED prev
        \/ UpsertUpdate(p) /\ UNCHANGED prev
        \/ UpsertCreate(p) /\ UNCHANGED prev

SpecProfile == InitTwoUsers /\ [][ProfileNext]_vars

\* prev records the experience or education entry added last, with the list
\* it was added to.
EntriesRecord(p) ==
    IF req'[p] # NoRequest THEN prev
    ELSE IF req[p].op = "addExperience" /\ FindById(profiles, req[p].profile) # Null
    THEN [op |-> req[p].op, profile |-> req[p].profile, entry |-> req[p].entry,
          before |-> profiles[req[p].profile].experience]
    ELSE IF req[p].op = "addEducation" /\ FindById(profiles, req[p].profile) # Null
    THEN [op |-> req[p].op, profile |-> req[p].profile, entry |-> req[p].entry,
          before |-> profiles[req[p].profile].education]
    ELSE NoPrev

\* The collections after every registered user but the last has created a
\* profile (what UpsertCreate stores for the first request body).
InitProfiles ==
    /\ users = [i \in 1..MaxUsers |-> SomeUser(i)]
    /\ profiles = [i \in 1..(MaxUsers - 1) |->
            ProfileFields(i, ProfileBody("dev", <<"a", ",", " ", "b">>, "acme", "yt", Absent))
                @@ [experience |-> <<>>, education |-> <<>>]]
    /\ posts = <<>>
    /\ nextOid = 0
    /\ req = [p \in Procs |-> NoRequest]
    /\ out = Response(0, "")
    /\ prev = NoPrev

\* The experience and education routes, requests handled one after the other.
EntriesSeqNext ==
    \E p \in Procs :
        \/ \E u \in UserIds, body \in ExperienceBodies :
                Alone(p) /\ AddExperienceFind(p, u, body) /\ prev' = EntriesRecord(p)
        \/ Alone(p) /\ AddExperienceSave(p) /\ prev' = EntriesRecord(p)
        \/ \E u \in UserIds, e \in EntryIdParams :
                Alone(p) /\ RemoveExperienceFind(p, u, e) /\ prev' = EntriesRecord(p)
        \/ Alone(p) /\ RemoveExperienceSave(p) /\ prev' = EntriesRecord(p)
        \/ \E u \in UserIds, body \in EducationBodies :
                Alone(p) /\ AddEducationFind(p, u, body) /\ prev' = EntriesRecord(p)
        \/ Alone(p) /\ AddEducationSave(p) /\ prev' = EntriesRecord(p)
        \/ \E u \in UserIds, e \in EntryIdParams :
                Alone(p) /\ RemoveEducationFind(p, u, e) /\ prev' = EntriesRecord(p)
        \/ Alone(p) /\ RemoveEducationSave(p) /\ prev' = EntriesRecord(p)

SpecEntriesSeq == InitProfiles /\ [][EntriesSeqNext]_vars

\* The database before any request.
InitEmpty ==
    /\ users = <<>>
    /\ profiles = <<>>
    /\ posts = <<>>
    /\ nextOid = 0
    /\ req = [p \in Procs |-> NoRequest]
    /\ out = Response(0, "")
    /\ prev = NoPrev

\* Registration and login, requests handled one after the other.
UsersSeqNext ==
    \E p \in Procs :
        \/ \E name \in Names, email \in Emails, password \in Passwords :
                Alone(p) /\ RegisterFind(p, name, email, password) /\ UNCHANGED prev
        \/ Alone(p) /\ RegisterSave(p) /\ UNCHANGED prev
        \/ \E email \in Emails, password \in Passwords :
                Alone(p) /\ LoginFind(p, email, password) /\ UNCHANGED prev
        \/ Alone(p) /\ LoginCompare(p) /\ UNCHANGED prev

SpecUsersSeq == InitEmpty /\ [][UsersSeqNext]_vars

----
\* Properties of the like list and of post deletion.

StoredPosts == {k \in DOMAIN posts : posts[k] # Removed}

\* C1: in every reachable state no user identifier occurs twice in the like
\* list of a stored post, whatever the interleaving of like and unlike requests.
C1_LikesUnique ==
    \A k \in StoredPosts :
        \A i, j \in 1..Len(posts[k].likes) :
            i # j => posts[k].likes[i].user # posts[k].likes[j].user

\* Two like requests of one user for one post overlapped: one is about to
\* save while the other's like is already stored.
C1_Witness ==
    \E p \in Procs :
        /\ req[p].op = "like" /\ req[p].pc = "save"
        /\ req[p].post \in StoredPosts
        /\ LikedBy(posts[req[p].post], req[p].user)

\* C2: a delete request by a user who is not the post's author is answered
\* 401 'Not authorized' and leaves the post collection as it was; and a post
\* leaves the collection only in the remove step of a delete request made by
\* its author.
C2_DeleteOnlyByAuthor ==
    [][/\ \A p \in Procs, u \in UserIds, k \in StoredPosts :
            DeletePostFind(p, u, k) /\ posts[k].user # u
                => out' = Response(401, "Not authorized") /\ posts' = posts
       /\ \A k \in StoredPosts :
            (k \notin DOMAIN posts' \/ posts'[k] = Removed)
                => \E p \in Procs :
                    /\ DeletePostRemove(p)
                    /\ req[p].post = k
                    /\ req[p].user = posts[k].user]_vars

C2_Witness ==
    /\ out = Response(401, "Not authorized")
    /\ \E k \in StoredPosts : Len(posts[k].likes) > 0

\* C3: when requests are handled one after the other and an unlike by a user
\* directly follows that user's successful like of the same post, the stored
\* like list after the unlike is the list stored before the like.
C3_LikeUnlikeRoundTrip ==
    [][\A p \in Procs :
        (/\ UnlikeSave(p)
         /\ prev.op = "like"
         /\ prev.user = req[p].user
         /\ prev.post = req[p].post)
            => posts'[req[p].post].likes = prev.before]_vars

\* The like has completed on a post that other users like, and the unlike
\* that follows it has found the like.
C3_Witness ==
    \E p \in Procs :
        /\ req[p].op = "unlike" /\ req[p].pc = "save"
        /\ prev.op = "like"
        /\ prev.user = req[p].user
        /\ prev.post = req[p].post
        /\ Len(prev.before) > 0

\* C4: a like request by a user found in the post's like list is answered
\* 400 "Can't like a post more than once", an unlike request by a user not
\* found in it 400 'Post has not been liked.', and neither changes a post.
C4_LikeErrors ==
    [][\A p \in Procs, u \in UserIds, k \in StoredPosts :
        /\ (LikeFind(p, u, k) /\ \E i \in 1..Len(posts[k].likes) : posts[k].likes[i].user = u)
              => /\ out' = Response(400, "Can't like a post more than once")
                 /\ posts' = posts
        /\ (UnlikeFind(p, u, k) /\ \A i \in 1..Len(posts[k].likes) : posts[k].likes[i].user # u)
              => /\ out' = Response(400, "Post has not been liked.")
                 /\ posts' = posts]_vars

C4_Witness ==
    /\ out = Response(400, "Can't like a post more than once")
    /\ \E k \in StoredPosts : Len(posts[k].likes) > 1

\* C5: a delete request for a well-formed identifier of no stored post is
\* answered 404 'Post not found.' and changes no post.
C5_DeleteAbsentIsNotFound ==
    [][\A p \in Procs, u \in UserIds, k \in PostIdParams :
        (DeletePostFind(p, u, k) /\ k # MalformedId /\ FindById(posts, k) = Null)
            => out' = Response(404, "Post not found.") /\ posts' = posts]_vars

----
\* Properties of the comment list.

\* C10: a remove-comment request that succeeds stores the comment list it
\* found with exactly the comment of the requested identifier deleted, the
\* other comments in their order.
C10_RemovesRequestedComment ==
    [][\A p \in Procs :
        (RemoveCommentSave(p) /\ req[p].post \in StoredPosts)
            => LET comments == posts[req[p].post].comments
                   keep == {i \in 1..Len(comments) : comments[i].id # req[p].comment}
                   nth(n) == CHOOSE i \in keep : Cardinality({j \in keep : j < i}) = n - 1
               IN  posts'[req[p].post].comments =
                        [n \in 1..Cardinality(keep) |-> comments[nth(n)]]]_vars

----
\* Properties of the profile collection.

StoredProfiles == {i \in DOMAIN profiles : profiles[i] # Removed}

\* C6: when requests are handled one after the other and the removal of an
\* experience entry directly follows the request that added that entry, the
\* stored experience list is again the list stored before the add, in content
\* and order; the same for education entries.
C6_AddRemoveRoundTrip ==
    [][\A p \in Procs :
        /\ (/\ RemoveExperienceSave(p)
            /\ prev.op = "addExperience"
            /\ prev.profile = req[p].profile
            /\ prev.entry = req[p].entry)
              => profiles'[req[p].profile].experience = prev.before
        /\ (/\ RemoveEducationSave(p)
            /\ prev.op = "addEducation"
            /\ prev.profile = req[p].profile
            /\ prev.entry = req[p].entry)
              => profiles'[req[p].profile].education = prev.before]_vars

\* An entry was added to a list that held one already, and the request that
\* removes the new entry has found the profile.
C6_Witness ==
    \E p \in Procs :
        /\ req[p].op = "removeExperience" /\ req[p].pc = "save"
        /\ prev.op = "addExperience"
        /\ prev.profile = req[p].profile
        /\ prev.entry = req[p].entry
        /\ Len(prev.before) > 0

\* C7: in every reachable state no two stored profiles have the same user,
\* whatever the interleaving of upsert requests.
C7_OneProfilePerUser ==
    \A i, j \in StoredProfiles : profiles[i].user = profiles[j].user => i = j

\* C12: the update of an existing profile by an upsert request leaves every
\* field the request did not provide as it was stored: the fields of the
\* profile that are not in the update document, the experience and
\* education lists among them, and each social link the request omitted.
C12_UpsertKeepsOmittedFields ==
    [][\A p \in Procs :
        (UpsertUpdate(p) /\ FindProfileId(req[p].user) # 0) =>
            LET id     == FindProfileId(req[p].user)
                before == profiles[id]
                after  == profiles'[id]
            IN  /\ \A k \in DOMAIN before \ DOMAIN req[p].fields :
                        k \in DOMAIN after /\ after[k] = before[k]
                /\ \A link \in DOMAIN before.social \ DOMAIN req[p].fields.social :
                        link \in DOMAIN after.social
                            /\ after.social[link] = before.social[link]]_vars

\* C11: a request that removes an experience entry and names an identifier
\* no entry of the requester's experience list has leaves the stored list as
\* it was, whether the list is empty or not; the same for education entries.
C11_RemoveUnknownIsNoOp ==
    [][\A p \in Procs :
        /\ (/\ RemoveExperienceSave(p)
            /\ \A i \in DOMAIN profiles[req[p].profile].experience :
                    profiles[req[p].profile].experience[i].id # req[p].entry)
              => profiles'[req[p].profile].experience
                    = profiles[req[p].profile].experience
        /\ (/\ RemoveEducationSave(p)
            /\ \A i \in DOMAIN profiles[req[p].profile].education :
                    profiles[req[p].profile].education[i].id # req[p].entry)
              => profiles'[req[p].profile].education
                    = profiles[req[p].profile].education]_vars

----
\* Properties of registration and login.

StoredUsers == {i \in DOMAIN users : users[i] # Removed}

\* C8: when requests are handled one after the other, a register request for
\* an email some stored user has is answered 'User already exists.' whatever
\* its valid name and password and stores nothing, and no two stored users
\* have the same email.
C8_RegisterRejectsDuplicate ==
    /\ [][\A p \in Procs, name \in Names, email \in Emails, password \in Passwords :
            (/\ RegisterFind(p, name, email, password)
             /\ RegisterValid(name, email, password)
             /\ \E i \in StoredUsers : users[i].email = email)
                => out' = Response(500, "User already exists.") /\ users' = users]_vars
    /\ [](\A i, j \in StoredUsers : users[i].email = users[j].email => i = j)

\* A register request for a stored email with another name and password was refused.
C8_Witness ==
    /\ out = Response(500, "User already exists.")
    /\ Len(users) = 1
    /\ \A p \in Procs : req[p].pc = "idle"

\* C9: a login with an email of no stored user and a login with a stored
\* email and a password that is not the one registered get the same response,
\* 500 'Invalid credentials.', which carries no token.
C9_LoginFailuresAlike ==
    [][\A p \in Procs :
        /\ \A email \in Emails, password \in Passwords :
                (/\ LoginFind(p, email, password)
                 /\ LoginValid(email, password)
                 /\ \A i \in StoredUsers : users[i].email # email)
                    => out' = Response(500, "Invalid credentials.")
        /\ (/\ LoginCompare(p)
            /\ \A salt \in Salts : req[p].doc.password # Hash(req[p].password, salt))
                => out' = Response(500, "Invalid credentials.")]_vars

\* A login was answered 'Invalid credentials.' and a login with a stored
\* email and a wrong password is at the comparison.
C9_Witness ==
    \E p \in Procs :
        /\ req[p].op = "login" /\ req[p].pc = "compare"
        /\ ~Compare(req[p].password, req[p].doc.password)
        /\ out = Response(500, "Invalid credentials.")

====
